---- MODULE Spec2Model ----
(***************************************************************************)
(* Climate-risk advisory core: threshold adjustment (src/src/config.py),   *)
(* daily aggregation and risk evaluation (src/src/risk_analysis.py) and    *)
(* advisory composition (src/src/advisories.py), called in sequence by the *)
(* request handler (src/app.py).                                           *)
(*                                                                         *)
(* Numbers are integers (degrees, mm, m/s, percent).  A calendar date is   *)
(* its day number, so the ascending order of the 'YYYY-MM-DD' keys is the  *)
(* order of the integers; a timestamp counts hours.                        *)
(***************************************************************************)
EXTENDS Integers, Sequences, FiniteSets, TLC

VARIABLES
    pc,                       \* position in the request pipeline
    base_thresholds,          \* the shared base set handed to get_adjusted_thresholds
    crop_info,                \* [type, stage] of the request
    thresholds,               \* the effective threshold set of the request
    forecast_data,            \* the forecast document handed to the evaluator
    daily_summary,            \* date -> summary, built by the aggregation loop
    sorted_days,              \* sorted(daily_summary.keys())
    day_idx,                  \* position of the day loop in sorted_days
    risks,                    \* the report under construction
    consecutive_dry_days,
    consecutive_hot_days,
    days_processed_for_risk,
    advisories                \* the composed advisory lines

vars == <<pc, base_thresholds, crop_info, thresholds, forecast_data, daily_summary,
          sorted_days, day_idx, risks, consecutive_dry_days, consecutive_hot_days,
          days_processed_for_risk, advisories>>

assess_vars == <<forecast_data, daily_summary, sorted_days, day_idx, risks,
                 consecutive_dry_days, consecutive_hot_days, days_processed_for_risk>>

----------------------------------------------------------------------------
(* JSON values that are not numbers *)

\* a key that is absent from its dict (dict.get returns the default), or None
Missing == 0 - 1000
\* a value of a type arithmetic and comparison reject (a string, a list)
NonNumeric == 0 - 2000
\* a timestamp beyond the platform's time_t: fromtimestamp raises OverflowError
OutOfRange == 0 - 3000

Max2(a, b) == IF a >= b THEN a ELSE b
Min2(a, b) == IF a <= b THEN a ELSE b

\* d.get(k, default)
Get(d, k, default) == IF d[k] = Missing THEN default ELSE d[k]

----------------------------------------------------------------------------
(* config.py *)

DEFAULT_THRESHOLDS ==
    [drought_risk_days |-> 7, drought_risk_mm |-> 2,
     flood_risk_mm_per_day |-> 50, heavy_rain_mm_per_3h |-> 15,
     heatwave_temp_c |-> 38, heatwave_days |-> 3,
     frost_risk_temp_c |-> 2,
     high_wind_speed_ms |-> 15,
     high_humidity_perc |-> 85, high_humidity_duration_h |-> 12]

SensitiveStages == {"Flowering", "Fruiting/Maturity"}

\* rule 1: higher sensitivity for the Flowering / Fruiting stages
StageRule(adjusted, crop, stage) ==
    IF stage \in SensitiveStages
    THEN [adjusted EXCEPT
            !.heatwave_temp_c = Max2(32, Get(adjusted, "heatwave_temp_c", 38) - 3),
            !.drought_risk_days = Max2(3, Get(adjusted, "drought_risk_days", 7) - 2)]
    ELSE adjusted

\* rule 2: lower drought sensitivity for Rice
RiceRule(adjusted, crop, stage) ==
    IF crop = "Rice" /\ stage # "Germination/Seedling"
    THEN [adjusted EXCEPT
            !.drought_risk_days = Min2(10, Get(adjusted, "drought_risk_days", 7) + 3)]
    ELSE adjusted

\* rule 3: higher frost sensitivity for Vegetable seedlings
VegetableRule(adjusted, crop, stage) ==
    IF crop = "Vegetables" /\ stage = "Germination/Seedling"
    THEN [adjusted EXCEPT
            !.frost_risk_temp_c = Max2(3, Get(adjusted, "frost_risk_temp_c", 2) + 1)]
    ELSE adjusted

\* rule 4: higher wind sensitivity for mature Maize
MaizeRule(adjusted, crop, stage) ==
    IF crop = "Maize" /\ stage \in {"Fruiting/Maturity"}
    THEN [adjusted EXCEPT
            !.high_wind_speed_ms = Max2(10, Get(adjusted, "high_wind_speed_ms", 15) - 3)]
    ELSE adjusted

\* mutant: the working dict is the caller's dict itself
dict_alias(d) == [same_object |-> TRUE, val |-> d]

\* base_thresholds.copy(): a new dict with the same items
dict_copy(d) == [same_object |-> FALSE, val |-> d]

\* mutant: rule 2 reads the caller's base value, not the value rule 1 left
get_adjusted_thresholds_from_base(base, crop, stage) ==
    LET a1 == StageRule(base, crop, stage)
        a2 == IF crop = "Rice" /\ stage # "Germination/Seedling"
              THEN [a1 EXCEPT !.drought_risk_days =
                                  Min2(10, Get(base, "drought_risk_days", 7) + 3)]
              ELSE a1
        a3 == VegetableRule(a2, crop, stage)
        a4 == MaizeRule(a3, crop, stage)
    IN  [adjusted |-> a4, base_after |-> base]

\* The returned dict, and the caller's base dict as the call leaves it.
get_adjusted_thresholds(base, crop, stage) ==
    LET adjusted == dict_copy(base)
        a1 == StageRule(adjusted.val, crop, stage)
        a2 == RiceRule(a1, crop, stage)
        a3 == VegetableRule(a2, crop, stage)
        a4 == MaizeRule(a3, crop, stage)
    IN  [adjusted |-> a4,
         base_after |-> IF adjusted.same_object THEN a4 ELSE base]

----------------------------------------------------------------------------
(* risk_analysis.py: the report *)

Categories == {"drought", "flood_heavy_rain", "heatwave", "frost", "high_wind",
               "prolonged_high_humidity"}

\* mutant: the report starts with a category already flagged
InitialRisksFlagged ==
    [drought |-> [warning |-> FALSE, details |-> <<>>],
     flood_heavy_rain |-> [warning |-> FALSE, details |-> <<>>],
     heatwave |-> [warning |-> FALSE, details |-> <<>>],
     frost |-> [warning |-> TRUE, details |-> <<>>],
     high_wind |-> [warning |-> FALSE, details |-> <<>>],
     prolonged_high_humidity |-> [warning |-> FALSE, details |-> <<>>],
     overall_alerts |-> <<>>]

InitialRisks ==
    [drought |-> [warning |-> FALSE, details |-> <<>>],
     flood_heavy_rain |-> [warning |-> FALSE, details |-> <<>>],
     heatwave |-> [warning |-> FALSE, details |-> <<>>],
     frost |-> [warning |-> FALSE, details |-> <<>>],
     high_wind |-> [warning |-> FALSE, details |-> <<>>],
     prolonged_high_humidity |-> [warning |-> FALSE, details |-> <<>>],
     overall_alerts |-> <<>>]

\* An alert string, as the values its f-string renders: the leading words, the
\* date it names, the forecast value, the threshold, and (humidity) the
\* average and the duration threshold.
Alert(kind, day, val, thr, extra) ==
    [kind |-> kind, day |-> day, val |-> val, thr |-> thr, extra |-> extra]

\* mutant: the detail is appended but the flag is not set
WarnUnflagged(r, cat, alert) ==
    [r EXCEPT ![cat] = [warning |-> @.warning, details |-> Append(@.details, alert)]]

\* risks[cat]['warning'] = True; risks[cat]['details'].append(alert)
Warn(r, cat, alert) ==
    [r EXCEPT ![cat] = [warning |-> TRUE, details |-> Append(@.details, alert)]]

----------------------------------------------------------------------------
(* risk_analysis.py: input validation *)

\* The forecast document: its shape and, for a dict with a list, the list.
\*   "none"        forecast_data is None
\*   "not_dict"    not a dict
\*   "no_list"     a dict without the 'list' key
\*   "not_a_list"  a dict whose 'list' is not a list
\*   "dict"        a dict whose 'list' is a list (possibly empty)
Document(shape, list) == [shape |-> shape, list |-> list]

DocumentRejected(doc) ==
    \/ doc.shape = "none"
    \/ doc.shape = "not_dict"
    \/ doc.shape = "no_list"
    \/ doc.shape = "not_a_list"
    \/ doc.list = <<>>

----------------------------------------------------------------------------
(* risk_analysis.py: daily aggregation *)

HoursPerDay == 24

\* datetime.fromtimestamp(ts).strftime('%Y-%m-%d')
DayOfTimestamp(ts) == ts \div HoursPerDay

\* One 3-hourly entry of the list.  is_dict = FALSE is an item that is not a
\* dict; the other fields are numbers, Missing or NonNumeric (dt also
\* OutOfRange).
Entry(is_dict, dt, temp_max, temp_min, rain_3h, wind_speed, humidity) ==
    [is_dict |-> is_dict, dt |-> dt, temp_max |-> temp_max, temp_min |-> temp_min,
     rain_3h |-> rain_3h, wind_speed |-> wind_speed, humidity |-> humidity]

NewSummary ==
    [max_temp |-> 0 - 100, min_temp |-> 200, total_rain |-> 0,
     max_wind_speed |-> 0, humidity_readings |-> <<>>, rain_3h_intervals |-> <<>>,
     count |-> 0]

\* The outcome of one pass of the aggregation loop body: the summaries it
\* leaves and whether it left by an exception the inner handler does not catch.
LoopResult(ds, escaped) == [daily_summary |-> ds, escaped |-> escaped]

TimestampMissing(ts) == ts = Missing

\* The statements of the loop body after the summary of the day exists;
\* a TypeError leaves the fields already assigned as they are.
FoldEntry(summary, entry) ==
    LET rain_3h == IF entry.rain_3h = Missing THEN 0 ELSE entry.rain_3h
        s1 == [summary EXCEPT !.max_temp =
                  Max2(@, IF entry.temp_max = Missing THEN @ ELSE entry.temp_max)]
        s2 == [s1 EXCEPT !.min_temp =
                  Min2(@, IF entry.temp_min = Missing THEN @ ELSE entry.temp_min)]
        s3 == [s2 EXCEPT !.total_rain = @ + rain_3h]
        s4 == [s3 EXCEPT !.max_wind_speed =
                  Max2(@, IF entry.wind_speed = Missing THEN 0 ELSE entry.wind_speed)]
        s5 == [s4 EXCEPT !.humidity_readings = Append(@, entry.humidity)]
        s6 == IF rain_3h > 0
              THEN [s5 EXCEPT !.rain_3h_intervals = Append(@, rain_3h)]
              ELSE s5
        s7 == [s6 EXCEPT !.count = @ + 1]
    IN  IF entry.temp_max = NonNumeric THEN summary
        ELSE IF entry.temp_min = NonNumeric THEN s1
        ELSE IF entry.rain_3h = NonNumeric THEN s2
        ELSE IF entry.wind_speed = NonNumeric THEN s3
        ELSE s7

\* One pass of the loop body over `entry`.
AggregateEntry(ds, entry) ==
    IF ~entry.is_dict THEN LoopResult(ds, FALSE)
    ELSE IF TimestampMissing(entry.dt) THEN LoopResult(ds, FALSE)
    ELSE IF entry.dt = NonNumeric THEN LoopResult(ds, FALSE)
    ELSE IF entry.dt = OutOfRange THEN LoopResult(ds, TRUE)
    ELSE LET day_str == DayOfTimestamp(entry.dt)
             ds1 == IF day_str \in DOMAIN ds THEN ds ELSE ds @@ (day_str :> NewSummary)
         IN  LoopResult([ds1 EXCEPT ![day_str] = FoldEntry(@, entry)], FALSE)

\* The aggregation loop over forecast_list[i..]
RECURSIVE AggregateFrom(_, _, _)
AggregateFrom(ds, forecast_list, i) ==
    IF i > Len(forecast_list) THEN LoopResult(ds, FALSE)
    ELSE LET r == AggregateEntry(ds, forecast_list[i])
         IN  IF r.escaped THEN r
             ELSE AggregateFrom(r.daily_summary, forecast_list, i + 1)

EmptySummaries == [d \in {} |-> NewSummary]

\* sorted(daily_summary.keys())
RECURSIVE SortedSeq(_)
SortedSeq(S) ==
    IF S = {} THEN <<>>
    ELSE LET m == CHOOSE x \in S : \A y \in S : x <= y
         IN  <<m>> \o SortedSeq(S \ {m})

----------------------------------------------------------------------------
(* risk_analysis.py: the rules of one day *)

\* date.today(), as a day number
today == 2

\* mutant: the date filter keeps the days before today
BeforeTodayNever(day_date) == FALSE

\* day_date < today
BeforeToday(day_date) == day_date < today

\* mutant: frost only strictly below the threshold
FrostTriggersStrict(min_temp, frost_threshold) == min_temp < frost_threshold

FrostTriggers(min_temp, frost_threshold) == min_temp <= frost_threshold

\* mutant: the heatwave alert fires only on the day the streak reaches the length
HeatwaveReachedOnce(hot_days, heat_days_thresh) == hot_days = heat_days_thresh

HeatwaveReached(hot_days, heat_days_thresh) == hot_days >= heat_days_thresh

\* max(rain_intervals) if rain_intervals else 0
RECURSIVE MaxOf(_)
MaxOf(seq) == IF seq = <<>> THEN 0 ELSE Max2(Head(seq), MaxOf(Tail(seq)))

RECURSIVE SumOf(_)
SumOf(seq) == IF seq = <<>> THEN 0 ELSE Head(seq) + SumOf(Tail(seq))

\* format(num / den, '.0f'): the nearest integer, a tie to the even one
RoundHalfEven(num, den) ==
    LET q == num \div den
        r == num % den
    IN  IF 2 * r < den THEN q
        ELSE IF 2 * r > den THEN q + 1
        ELSE IF q % 2 = 0 THEN q ELSE q + 1

IsReading(h) == h # Missing
IsBadReading(h) == h = NonNumeric

\* any(f"ending {day_str}" in d for d in risks['heatwave']['details'])
AlreadyAlerted(details, day_str) ==
    \E k \in 1..Len(details) : details[k].kind = "Heatwave Risk" /\ details[k].day = day_str

\* The local state of the day loop.
Frame(r, dry, hot, processed, stop) ==
    [risks |-> r, consecutive_dry_days |-> dry, consecutive_hot_days |-> hot,
     days_processed_for_risk |-> processed, stop |-> stop]

\* One pass of the day loop for a date that is not before today.
AssessDay(f, day_str, summary, th) ==
    LET processed == f.days_processed_for_risk + 1
        \* frost
        frost_threshold == Get(th, "frost_risk_temp_c", 2)
        frost == FrostTriggers(summary.min_temp, frost_threshold)
        frost_alert == Alert("Frost Risk", day_str, summary.min_temp, frost_threshold, <<>>)
        r1 == IF frost THEN Warn(f.risks, "frost", frost_alert) ELSE f.risks
        al1 == IF frost THEN <<frost_alert>> ELSE <<>>
        \* flood / heavy rain
        flood_thresh_day == Get(th, "flood_risk_mm_per_day", 50)
        flood_thresh_3h == Get(th, "heavy_rain_mm_per_3h", 15)
        total_rain == summary.total_rain
        max_3h_rain == MaxOf(summary.rain_3h_intervals)
        flood == total_rain >= flood_thresh_day
        burst == ~flood /\ max_3h_rain >= flood_thresh_3h
        flood_alert ==
            IF flood THEN Alert("Flood Risk", day_str, total_rain, flood_thresh_day, <<>>)
            ELSE Alert("Heavy Rain Burst Risk", day_str, max_3h_rain, flood_thresh_3h, <<>>)
        r2 == IF flood \/ burst THEN Warn(r1, "flood_heavy_rain", flood_alert) ELSE r1
        al2 == IF flood \/ burst THEN Append(al1, flood_alert) ELSE al1
        \* high wind
        wind_threshold == Get(th, "high_wind_speed_ms", 15)
        max_wind == summary.max_wind_speed
        windy == max_wind >= wind_threshold
        wind_alert == Alert("High Wind Risk", day_str, max_wind, wind_threshold, <<>>)
        r3 == IF windy THEN Warn(r2, "high_wind", wind_alert) ELSE r2
        al3 == IF windy THEN Append(al2, wind_alert) ELSE al2
        \* high humidity
        humid_thresh == Get(th, "high_humidity_perc", 85)
        humid_dur_thresh == Get(th, "high_humidity_duration_h", 12)
        humid_readings == SelectSeq(summary.humidity_readings, IsReading)
        type_error == SelectSeq(humid_readings, IsBadReading) # <<>>
        high == SelectSeq(humid_readings, LAMBDA h : h >= humid_thresh)
        humid_hours == Len(high) * 3
        humid == humid_hours >= humid_dur_thresh /\ humid_readings # <<>>
        avg_humid_high == IF high # <<>> THEN RoundHalfEven(SumOf(high), Len(high))
                          ELSE humid_thresh
        humid_alert == Alert("Prolonged High Humidity Risk", day_str, humid_hours,
                             humid_thresh, <<avg_humid_high, humid_dur_thresh>>)
        r4 == IF humid THEN Warn(r3, "prolonged_high_humidity", humid_alert) ELSE r3
        al4 == IF humid THEN Append(al3, humid_alert) ELSE al3
        \* drought
        drought_mm_thresh == Get(th, "drought_risk_mm", 2)
        drought_days_thresh == Get(th, "drought_risk_days", 7)
        heat_temp_thresh == Get(th, "heatwave_temp_c", 38)
        heat_days_thresh == Get(th, "heatwave_days", 3)
        dry == IF summary.total_rain <= drought_mm_thresh
               THEN f.consecutive_dry_days + 1 ELSE 0
        drought == dry >= drought_days_thresh /\ ~r4.drought.warning
        drought_start_day == day_str - (dry - 1)
        drought_alert == Alert("Drought Risk Developing", drought_start_day, dry,
                               drought_mm_thresh, <<>>)
        r5 == IF drought THEN Warn(r4, "drought", drought_alert) ELSE r4
        al5 == IF drought THEN Append(al4, drought_alert) ELSE al4
        \* heatwave
        hot == IF summary.max_temp >= heat_temp_thresh
               THEN f.consecutive_hot_days + 1 ELSE 0
        heatwave == /\ HeatwaveReached(hot, heat_days_thresh)
                    /\ ~AlreadyAlerted(r5.heatwave.details, day_str)
        heat_alert == Alert("Heatwave Risk", day_str, hot, heat_temp_thresh, <<>>)
        r6 == IF heatwave THEN Warn(r5, "heatwave", heat_alert) ELSE r5
        al6 == IF heatwave THEN Append(al5, heat_alert) ELSE al5
        r7 == [r6 EXCEPT !.overall_alerts = @ \o al6]
    IN  IF type_error
        THEN \* the except of the day: the alerts already appended stay, the
             \* counters, overall_alerts and the 5-day check are skipped
             Frame(r3, f.consecutive_dry_days, f.consecutive_hot_days, processed, FALSE)
        ELSE Frame(r7, dry, hot, processed, processed >= 5)

\* One pass of the day loop: `continue` for a date before today.
DayStep(f, day_str, ds, th) ==
    IF BeforeToday(day_str) THEN f ELSE AssessDay(f, day_str, ds[day_str], th)

\* The day loop over days[k..]
RECURSIVE DayLoopFrom(_, _, _, _, _)
DayLoopFrom(f, days, k, ds, th) ==
    IF k > Len(days) \/ f.stop THEN f
    ELSE DayLoopFrom(DayStep(f, days[k], ds, th), days, k + 1, ds, th)

\* The whole function on a document, as one value: the report it returns.
assess_climate_risks_enhanced(doc, th) ==
    IF DocumentRejected(doc) THEN InitialRisks
    ELSE LET a == AggregateFrom(EmptySummaries, doc.list, 1)
         IN  IF a.escaped THEN InitialRisks
             ELSE DayLoopFrom(Frame(InitialRisks, 0, 0, 0, FALSE),
                              SortedSeq(DOMAIN a.daily_summary), 1,
                              a.daily_summary, th).risks

----------------------------------------------------------------------------
(* advisories.py *)

max_details_in_advisory == 7

NoDetail == Alert("", 0, 0, 0, <<>>)

\* A fixed line of text, and the line "  - {detail}" of one alert.
Line(text) == [text |-> text, detail |-> NoDetail]
DetailLine(detail) == [text |-> "  - {detail}", detail |-> detail]

\* mutant: the eighth alert is still listed
ListsDetailInclusive(i) == i <= max_details_in_advisory

\* i < max_details_in_advisory
ListsDetail(i) == i < max_details_in_advisory

\* for i, detail in enumerate(overall_alerts), from index i (0-based) on
RECURSIVE DetailLoop(_, _, _)
DetailLoop(lines, overall_alerts, i) ==
    IF i >= Len(overall_alerts) THEN lines
    ELSE IF ListsDetail(i)
         THEN DetailLoop(Append(lines, DetailLine(overall_alerts[i + 1])),
                         overall_alerts, i + 1)
    ELSE IF i = max_details_in_advisory
         THEN Append(lines, Line("  - ... (and potentially more)"))
    ELSE DetailLoop(lines, overall_alerts, i + 1)

\* mutant: the early return for a report without warnings is never taken
HasAnyWarningAlways(r) == TRUE

\* any(v.get('warning', False) for k, v in risks.items() if k != 'overall_alerts')
HasAnyWarning(r) == \E c \in Categories : r[c].warning

\* The report is always the dict the evaluator returned, so the branch for a
\* missing report (`if not risks`) is never taken and is left out.
generate_advisories_enhanced(r, info) ==
    LET has_any_warning == HasAnyWarning(r)
        l0 == <<Line("--- Climate Risk Advisories & Recommendations ---")>>
        l1 == IF r.drought.warning
              THEN l0 \o <<Line("Drought / Dry Spell Risk:"),
                           Line("  - Focus on water conservation"),
                           IF info.stage \in {"Flowering", "Fruiting/Maturity"}
                           THEN Line("  - CRITICAL STAGE")
                           ELSE Line("  - Consider adjusting irrigation schedule")>>
              ELSE l0
        l2 == IF r.flood_heavy_rain.warning
              THEN Append(l1, Line("Flood / Heavy Rain Risk:")) ELSE l1
        l3 == IF r.heatwave.warning THEN Append(l2, Line("Heatwave Risk:")) ELSE l2
        l4 == IF r.frost.warning THEN Append(l3, Line("Frost Risk:")) ELSE l3
        l5 == IF r.high_wind.warning THEN Append(l4, Line("High Wind Risk:")) ELSE l4
        l6 == IF r.prolonged_high_humidity.warning
              THEN Append(l5, Line("Prolonged High Humidity Risk:")) ELSE l5
        l7 == IF r.overall_alerts # <<>>
              THEN DetailLoop(
                     Append(l6, Line("--- Specific Forecast Details Triggering Warnings ---")),
                     r.overall_alerts, 0)
              ELSE l6
    IN  IF ~has_any_warning
        THEN <<Line("No significant climate risks detected")>>
        ELSE l7 \o <<Line("---"), Line("NOTE")>>

----------------------------------------------------------------------------
(* The forecasts and requests the model is run on *)

\* A well-formed entry at hour `hour` of its day (the day is set by At).
Sample(hour, temp_max, temp_min, rain_3h, wind_speed, humidity) ==
    Entry(TRUE, hour, temp_max, temp_min, rain_3h, wind_speed, humidity)

\* The entry `shape` placed on day d; an entry without a usable timestamp stays.
At(d, shape) ==
    IF shape.is_dict /\ shape.dt >= 0
    THEN [shape EXCEPT !.dt = d * HoursPerDay + shape.dt]
    ELSE shape

\* The lists with at most one entry, drawn from shapes, on each day of d..last,
\* in ascending order of the days.
RECURSIVE Chronological(_, _, _)
Chronological(d, last, shapes) ==
    IF d > last THEN {<<>>}
    ELSE LET rest == Chronological(d + 1, last, shapes)
         IN  rest \cup {<<At(d, s)>> \o r : s \in shapes, r \in rest}

\* The lists of at most n entries of E, in any order.
SeqsUpTo(E, n) == UNION {[1..k -> E] : k \in 0..n}

RunDays == 7
GapDays == 6
HotDays == 5
PerDayLast == 2
PastDays == 2
FaultLen == 2
FaultyDays == 6
HeatGapDays == 4
StormDays == 4
SamplesPerDay == 4

DrySample == Sample(12, 30, 10, 2, 5, 50)
WetSample == Sample(12, 30, 10, 3, 5, 50)

\* n days from today on, each dry or wet
Runs == UNION {{[k \in 1..n |-> At(today + k - 1, h[k])] : h \in [1..n -> {DrySample, WetSample}]}
               : n \in 1..RunDays}

\* dry and wet days with dates missing in between
Gappy == Chronological(today, today + GapDays - 1, {DrySample, WetSample})

HotShapes == {Sample(12, t, 20, Missing, 5, 50) : t \in {30, 35, 38}}
Hot == Chronological(today, today + HotDays - 1, HotShapes)

PerDayShapes == {Sample(12, 30, tmin, rain, 5, 50) : tmin \in {2, 3, 4}, rain \in {Missing, 15}}
PerDay == Chronological(today - 1, today - 1 + PerDayLast, PerDayShapes)

\* days before today only
Past == Chronological(today - PastDays, today - 1, PerDayShapes)

DatedFaultShapes ==
    {Sample(9, 30, 10, 15, 5, 50),                    \* well-formed, a 15 mm burst
     Sample(9, NonNumeric, 1, 60, 20, 90),            \* fails at temp_max
     Sample(9, 38, NonNumeric, 60, 20, 90),           \* fails at temp_min
     Sample(9, 38, 1, NonNumeric, 20, 90),            \* fails at the rain sum
     Sample(9, 38, 1, 60, NonNumeric, 90),            \* fails at wind speed
     Sample(9, 30, 2, 3, 5, NonNumeric)}              \* humidity read by the day loop
UndatedFaultShapes ==
    {Entry(FALSE, Missing, Missing, Missing, Missing, Missing, Missing),
     Sample(Missing, 38, 1, 60, 20, 90),
     Sample(NonNumeric, 38, 1, 60, 20, 90),
     Sample(OutOfRange, 38, 1, 60, 20, 90)}
Faults == SeqsUpTo({At(d, s) : d \in {today, today + 1}, s \in DatedFaultShapes}
                   \cup UndatedFaultShapes, FaultLen)

\* frosty days, some with a humidity value the day loop cannot compare
FaultyDayShapes == {Sample(12, 30, 2, 3, 5, 50), Sample(12, 30, 2, 3, 5, NonNumeric)}
FaultyDayLists == Chronological(today, today + FaultyDays - 1, FaultyDayShapes)

\* hot days, some holding only an entry that fails at temp_max
HeatGap == Chronological(today, today + HeatGapDays - 1,
                         {Sample(12, 38, 20, 3, 5, 50), Sample(12, NonNumeric, 20, 3, 5, 50)})

StormShapes == {Sample(12, 30, 2, 3, 5, 50), Sample(12, 30, 2, 3, 15, 50),
                Sample(12, 30, 2, 50, 12, 50)}
Storm == Chronological(today, today + StormDays - 1, StormShapes)

\* one day of 3-hourly humidity readings
Humid == {[k \in 1..SamplesPerDay |-> At(today, Sample(3 * (k - 1), 30, 10, 3, 5, h[k]))]
          : h \in [1..SamplesPerDay -> {84, 85, 90, Missing}]}

InvalidDocuments ==
    {Document("none", <<>>), Document("not_dict", <<>>), Document("no_list", <<>>),
     Document("not_a_list", <<>>), Document("dict", <<>>)}

Info(type, stage) == [type |-> type, stage |-> stage]
Request(doc, info) == [doc |-> doc, info |-> info]

Crossed(lists, infos) == {Request(Document("dict", l), i) : l \in lists \ {<<>>}, i \in infos}

Requests ==
    {Request(d, Info("Other", "Vegetative")) : d \in InvalidDocuments}
    \cup Crossed(Runs, {Info("Other", "Vegetative"), Info("Other", "Flowering"),
                        Info("Rice", "Flowering"), Info("Rice", "Vegetative")})
    \cup Crossed(Gappy, {Info("Other", "Fruiting/Maturity")})
    \cup Crossed(Hot, {Info("Other", "Vegetative"), Info("Other", "Flowering")})
    \cup Crossed(PerDay, {Info("Other", "Vegetative"), Info("Vegetables", "Germination/Seedling")})
    \cup Crossed(Past, {Info("Other", "Vegetative")})
    \cup Crossed(Faults, {Info("Other", "Vegetative")})
    \cup Crossed(FaultyDayLists, {Info("Other", "Vegetative")})
    \cup Crossed(HeatGap, {Info("Other", "Vegetative")})
    \cup Crossed(Storm, {Info("Other", "Vegetative"), Info("Maize", "Fruiting/Maturity")})
    \cup Crossed(Humid, {Info("Other", "Vegetative")})

----------------------------------------------------------------------------
(* The request pipeline *)

NoThresholds == [k \in DOMAIN DEFAULT_THRESHOLDS |-> Missing]

Blank ==
    /\ crop_info = Info("", "")
    /\ thresholds = NoThresholds
    /\ forecast_data = Document("none", <<>>)
    /\ daily_summary = EmptySummaries
    /\ sorted_days = <<>>
    /\ day_idx = 1
    /\ risks = InitialRisks
    /\ consecutive_dry_days = 0
    /\ consecutive_hot_days = 0
    /\ days_processed_for_risk = 0
    /\ advisories = <<>>

Init ==
    /\ pc = "idle"
    /\ base_thresholds = DEFAULT_THRESHOLDS
    /\ Blank

\* app.py: the request's crop and stage, its threshold set, and the forecast
\* document handed to the evaluator
get_advisory ==
    /\ pc = "idle"
    /\ \E req \in Requests :
         LET t == get_adjusted_thresholds(base_thresholds, req.info.type, req.info.stage)
         IN  /\ crop_info' = req.info
             /\ thresholds' = t.adjusted
             /\ base_thresholds' = t.base_after
             /\ forecast_data' = req.doc
    /\ pc' = "assess"
    /\ UNCHANGED <<daily_summary, sorted_days, day_idx, risks, consecutive_dry_days,
                   consecutive_hot_days, days_processed_for_risk, advisories>>

\* the report is initialised and the document validated
Validate ==
    /\ pc = "assess"
    /\ risks' = InitialRisks
    /\ pc' = IF DocumentRejected(forecast_data) THEN "returned" ELSE "aggregate"
    /\ UNCHANGED <<base_thresholds, crop_info, thresholds, forecast_data, daily_summary,
                   sorted_days, day_idx, consecutive_dry_days, consecutive_hot_days,
                   days_processed_for_risk, advisories>>

\* the aggregation loop, then the set-up of the day loop; an exception the
\* loop does not catch returns the report as it is
Aggregate ==
    /\ pc = "aggregate"
    /\ LET a == AggregateFrom(EmptySummaries, forecast_data.list, 1)
       IN  IF a.escaped
           THEN /\ pc' = "returned"
                /\ UNCHANGED <<daily_summary, sorted_days>>
           ELSE /\ pc' = "days"
                /\ daily_summary' = a.daily_summary
                /\ sorted_days' = SortedSeq(DOMAIN a.daily_summary)
    /\ consecutive_dry_days' = 0
    /\ consecutive_hot_days' = 0
    /\ days_processed_for_risk' = 0
    /\ day_idx' = 1
    /\ UNCHANGED <<base_thresholds, crop_info, thresholds, forecast_data, risks, advisories>>

\* one pass of the day loop
RiskDay ==
    /\ pc = "days"
    /\ day_idx <= Len(sorted_days)
    /\ LET f == DayStep(Frame(risks, consecutive_dry_days, consecutive_hot_days,
                              days_processed_for_risk, FALSE),
                        sorted_days[day_idx], daily_summary, thresholds)
       IN  /\ risks' = f.risks
           /\ consecutive_dry_days' = f.consecutive_dry_days
           /\ consecutive_hot_days' = f.consecutive_hot_days
           /\ days_processed_for_risk' = f.days_processed_for_risk
           /\ pc' = IF f.stop THEN "returned" ELSE "days"
    /\ day_idx' = day_idx + 1
    /\ UNCHANGED <<base_thresholds, crop_info, thresholds, forecast_data, daily_summary,
                   sorted_days, advisories>>

\* the day loop is exhausted
ReturnRisks ==
    /\ pc = "days"
    /\ day_idx > Len(sorted_days)
    /\ pc' = "returned"
    /\ UNCHANGED <<base_thresholds, crop_info, thresholds, advisories, assess_vars>>

GenerateAdvisories ==
    /\ pc = "returned"
    /\ advisories' = generate_advisories_enhanced(risks, crop_info)
    /\ pc' = "rendered"
    /\ UNCHANGED <<base_thresholds, crop_info, thresholds, assess_vars>>

Next ==
    \/ get_advisory
    \/ Validate
    \/ Aggregate
    \/ RiskDay
    \/ ReturnRisks
    \/ GenerateAdvisories

Spec == Init /\ [][Next]_vars

----------------------------------------------------------------------------
(* Threshold adjustment on its own, for any base set *)

MaxBaseDays == 12
MaxBaseTemp == 42

BaseSets ==
    {[DEFAULT_THRESHOLDS EXCEPT !.drought_risk_days = d, !.heatwave_temp_c = h]
       : d \in {Missing} \cup (1..MaxBaseDays), h \in {Missing} \cup (30..MaxBaseTemp)}

Crops == {"Other", "Rice", "Vegetables", "Maize"}
Stages == {"Vegetative", "Flowering", "Fruiting/Maturity", "Germination/Seedling"}

InitAdjust ==
    /\ pc = "config"
    /\ base_thresholds \in BaseSets
    /\ Blank

\* one call of get_adjusted_thresholds on the shared base set
AdjustCall ==
    /\ pc = "config"
    /\ \E crop \in Crops, stage \in Stages :
         LET t == get_adjusted_thresholds(base_thresholds, crop, stage)
         IN  /\ crop_info' = Info(crop, stage)
             /\ thresholds' = t.adjusted
             /\ base_thresholds' = t.base_after
    /\ UNCHANGED <<pc, advisories, assess_vars>>

NextAdjust == AdjustCall

SpecAdjust == InitAdjust /\ [][NextAdjust]_vars

----------------------------------------------------------------------------
(* Properties *)

Returned == pc = "returned"

AllClear(r) ==
    /\ \A c \in Categories : ~r[c].warning /\ r[c].details = <<>>
    /\ r.overall_alerts = <<>>

\* C1: a forecast document that is None, not a dict, without 'list', with a
\* 'list' that is not a list, or with an empty list yields a report with all
\* six warnings False, all details empty and no overall alerts.
C1_RejectedDocumentAllClear ==
    (Returned /\ DocumentRejected(forecast_data)) => AllClear(risks)

C1_Witness ==
    Returned /\ forecast_data.shape = "not_a_list"

\* The dates of the summaries, and those on or after today.
Dates == DOMAIN daily_summary
Eligible == {d \in Dates : d >= today}
IsDry(d) == daily_summary[d].total_rain <= Get(thresholds, "drought_risk_mm", 2)

\* The forecast is n consecutive days from today on, each of them dry.
DryRun(n) ==
    /\ n >= 1
    /\ Dates = today .. (today + n - 1)
    /\ \A d \in Dates : IsDry(d)

\* C2 (as claimed): N consecutive dry days, N the effective drought_risk_days,
\* give drought warning = True with exactly one drought detail, and one more
\* dry day adds no second detail.
C2_DroughtAtThreshold ==
    LET N == Get(thresholds, "drought_risk_days", 7)
    IN  (Returned /\ (DryRun(N) \/ DryRun(N + 1)))
          => (risks.drought.warning /\ Len(risks.drought.details) = 1)

\* An entry whose processing raises in the aggregation loop.
FailsInAggregation(e) ==
    /\ e.is_dict
    /\ e.dt # Missing
    /\ \/ e.dt \in {NonNumeric, OutOfRange}
       \/ NonNumeric \in {e.temp_max, e.temp_min, e.rain_3h, e.wind_speed}

Dated(e) == e.is_dict /\ e.dt >= 0

\* The dates whose day fails in the day loop: a well-formed entry of the day
\* carries a humidity value that cannot be compared.
FailingDays(list) ==
    {DayOfTimestamp(list[k].dt) : k \in {j \in 1..Len(list) :
        Dated(list[j]) /\ ~FailsInAggregation(list[j]) /\ list[j].humidity = NonNumeric}}

FaultyUnits(list) ==
    Cardinality({k \in 1..Len(list) : FailsInAggregation(list[k])})
      + Cardinality(FailingDays(list))

\* The forecast list without its failing entries and without the entries of
\* its failing days.
WithoutFaulty(list) ==
    SelectSeq(list, LAMBDA e :
        /\ ~FailsInAggregation(e)
        /\ ~(Dated(e) /\ DayOfTimestamp(e.dt) \in FailingDays(list)))

AlertsOf(seq) == {seq[k] : k \in 1..Len(seq)}

\* C3 (as claimed): with one entry or one day whose processing fails, the
\* report holds every alert the forecast without that unit produces.
C3_FaultContained ==
    (Returned /\ ~DocumentRejected(forecast_data) /\ FaultyUnits(forecast_data.list) = 1)
      => LET clean == Document("dict", WithoutFaulty(forecast_data.list))
             expected == assess_climate_risks_enhanced(clean, thresholds)
         IN  AlertsOf(expected.overall_alerts) \subseteq AlertsOf(risks.overall_alerts)

Rank(d) == Cardinality({x \in Eligible : x <= d})

\* C5 (as claimed): a pass of the day loop over a sixth or later date on or
\* after today adds no alert and advances neither streak counter.
C5_FiveDayHorizon ==
    [][(pc = "days" /\ day_idx <= Len(sorted_days) /\ day_idx' = day_idx + 1
          /\ sorted_days[day_idx] >= today /\ Rank(sorted_days[day_idx]) > 5)
         => (risks' = risks /\ consecutive_dry_days' = consecutive_dry_days
               /\ consecutive_hot_days' = consecutive_hot_days)]_vars

\* Every entry of the list carries a timestamp of a day before today.
AllInThePast(doc) ==
    /\ ~DocumentRejected(doc)
    /\ \A k \in 1..Len(doc.list) :
         Dated(doc.list[k]) /\ DayOfTimestamp(doc.list[k].dt) < today

\* C6: a forecast whose samples all fall on dates before today yields a
\* report with all warnings False, all details empty and no overall alerts.
C6_PastOnlyAllClear ==
    (Returned /\ AllInThePast(forecast_data)) => AllClear(risks)

C6_Witness ==
    /\ Returned
    /\ AllInThePast(forecast_data)
    /\ Cardinality(Dates) = 2
    /\ \E d \in Dates : daily_summary[d].min_temp <= 2 /\ daily_summary[d].total_rain >= 15

\* C7: for stage Flowering and crop Rice the result's drought_risk_days is
\* min(10, max(3, base - 2) + 3) and its heatwave_temp_c is max(32, base - 3),
\* base being the base set's value (7 and 38 where the base set has none).
C7_FloweringRiceComposition ==
    LET b == Get(base_thresholds, "drought_risk_days", 7)
        h == Get(base_thresholds, "heatwave_temp_c", 38)
        lowered == IF b - 2 >= 3 THEN b - 2 ELSE 3
    IN  crop_info = Info("Rice", "Flowering")
          => /\ thresholds.drought_risk_days
                  = (IF lowered + 3 <= 10 THEN lowered + 3 ELSE 10)
             /\ thresholds.heatwave_temp_c = (IF h - 3 >= 32 THEN h - 3 ELSE 32)

C7_Witness ==
    /\ crop_info = Info("Rice", "Flowering")
    /\ base_thresholds = DEFAULT_THRESHOLDS
    /\ thresholds.drought_risk_days = 8
    /\ thresholds.heatwave_temp_c = 35

\* C8: no call of get_adjusted_thresholds changes the base set it is given.
C8_BaseNeverMutated ==
    [][base_thresholds' = base_thresholds]_vars

C8_Witness ==
    /\ base_thresholds = DEFAULT_THRESHOLDS
    /\ crop_info = Info("Maize", "Fruiting/Maturity")
    /\ thresholds.high_wind_speed_ms = 12
    /\ thresholds.drought_risk_days = 5

\* C9: a pass of the day loop over a date on or after today whose min_temp
\* equals the frost threshold sets the frost warning and appends one frost
\* detail for that date; with min_temp one degree above, frost is untouched.
C9_FrostBoundary ==
    [][(pc = "days" /\ day_idx <= Len(sorted_days) /\ day_idx' = day_idx + 1
          /\ sorted_days[day_idx] >= today)
         => LET d == sorted_days[day_idx]
                t == Get(thresholds, "frost_risk_temp_c", 2)
                m == daily_summary[d].min_temp
            IN  /\ m = t => /\ risks'.frost.warning
                            /\ risks'.frost.details
                                 = Append(risks.frost.details,
                                          Alert("Frost Risk", d, m, t, <<>>))
                /\ m = t + 1 => risks'.frost = risks.frost]_vars

C9_Witness ==
    /\ Returned
    /\ LET t == Get(thresholds, "frost_risk_temp_c", 2)
       IN  \E d, e \in Eligible :
             /\ e < d
             /\ daily_summary[d].min_temp = t
             /\ daily_summary[e].min_temp = t + 1
             /\ \E k \in 1..Len(risks.frost.details) : risks.frost.details[k].day = d
             /\ \A k \in 1..Len(risks.frost.details) : risks.frost.details[k].day # e

IsDetailLine(l) == l.text = "  - {detail}"
IsMarkerLine(l) == l.text = "  - ... (and potentially more)"

\* C10: the advisory lists the first 7 entries of overall_alerts (all of
\* them when there are fewer) as detail lines, in order, and holds the
\* truncation marker exactly when overall_alerts has more than 7 entries.
C10_DetailTruncation ==
    pc = "rendered"
      => LET n == Len(risks.overall_alerts)
             shown == SelectSeq(advisories, IsDetailLine)
             markers == SelectSeq(advisories, IsMarkerLine)
         IN  /\ [k \in 1..Len(shown) |-> shown[k].detail]
                  = SubSeq(risks.overall_alerts, 1, IF n <= 7 THEN n ELSE 7)
             /\ Len(markers) = (IF n > 7 THEN 1 ELSE 0)

C10_Witness ==
    /\ pc = "rendered"
    /\ Len(risks.overall_alerts) = 8
    /\ Len(SelectSeq(advisories, IsMarkerLine)) = 1
    /\ Len(SelectSeq(advisories, IsDetailLine)) = 7

\* C11: the advisory of a report whose six warnings are all False is exactly
\* one line, the 'no significant risk' message, whatever the crop and stage.
C11_NoRiskSingleLine ==
    (pc = "rendered" /\ \A c \in Categories : ~risks[c].warning)
      => /\ Len(advisories) = 1
         /\ advisories[1].text = "No significant climate risks detected"

C11_Witness ==
    /\ pc = "rendered"
    /\ \A c \in Categories : ~risks[c].warning
    /\ crop_info = Info("Rice", "Flowering")
    /\ Eligible # {}
    /\ Len(advisories) = 1

\* The category whose detail list an alert of this kind is appended to.
CategoryOfKind(kind) ==
    CASE kind = "Frost Risk" -> "frost"
      [] kind \in {"Flood Risk", "Heavy Rain Burst Risk"} -> "flood_heavy_rain"
      [] kind = "High Wind Risk" -> "high_wind"
      [] kind = "Prolonged High Humidity Risk" -> "prolonged_high_humidity"
      [] kind = "Drought Risk Developing" -> "drought"
      [] kind = "Heatwave Risk" -> "heatwave"
      [] OTHER -> "none"

\* C12 (as claimed): in a returned report each category's details are the
\* alerts of that category in overall_alerts, in the same order, and
\* overall_alerts holds no other alert.
C12_OverallMirrorsDetails ==
    Returned
      => /\ \A c \in Categories :
              risks[c].details
                = SelectSeq(risks.overall_alerts, LAMBDA a : CategoryOfKind(a.kind) = c)
         /\ \A k \in 1..Len(risks.overall_alerts) :
              CategoryOfKind(risks.overall_alerts[k].kind) \in Categories

\* C13 (as claimed): the summaries the aggregation loop leaves are those of
\* the forecast list without the entries whose processing failed.
C13_FailedEntryContributesNothing ==
    (pc = "days" /\ day_idx = 1)
      => daily_summary
           = AggregateFrom(EmptySummaries,
                           SelectSeq(forecast_data.list,
                                     LAMBDA e : ~FailsInAggregation(e)), 1).daily_summary

C15_DroughtStartIsFirstDryDay ==
    \A k \in 1..Len(risks.drought.details) :
      LET a == risks.drought.details[k]
          run == {x \in Eligible : x >= a.day /\ Rank(x) < Rank(a.day) + a.val}
      IN  /\ a.day \in Eligible
          /\ Cardinality(run) = a.val
          /\ \A x \in run : IsDry(x)
          /\ \A x \in Eligible : Rank(x) = Rank(a.day) - 1 => ~IsDry(x)

====
